---- MODULE Spec2Model ----
(***************************************************************************)
(* The turn engine of AIWolfGame: GameController.run_game and the phases   *)
(* it drives (night_phase, day_phase, voting_phase, kill_player,           *)
(* _handle_death, check_game_over, announce_winner) together with the role *)
(* state of game/roles.py.  The AI agents are the environment: every       *)
(* decision call returns an arbitrary value of its result type or raises.  *)
(***************************************************************************)
EXTENDS Integers, Sequences, FiniteSets, TLC

\* ------------------------------------------------------------------ bounds
\* Rounds are counted exactly up to MaxRound; the value MaxRound stands for
\* "round MaxRound or any later round" (the code compares the round with 1 only).
MaxRound == 3
\* _handle_death may be applied to one player at most this many times.
MaxDeathEntries == 2

\* ------------------------------------------------------------- the rosters
\* config["roles"]: the roles in join order (player i is the i-th entry).
Rosters ==
    { <<"werewolf", "seer", "witch", "hunter", "villager">>,
      <<"werewolf", "werewolf", "witch", "hunter", "hunter">>,
      <<"werewolf", "witch", "witch", "hunter">> }

\* The room of two Werewolves and four Villagers.
SixPlayers == <<"werewolf", "werewolf", "villager", "villager", "villager", "villager">>

\* Python's None as a decision target.
None == 0

VARIABLES
    config,                   \* self.config: the roles and the ai_type of the players
    role,                     \* self.players[p].role_type
    is_alive,                 \* self.players[p].is_alive
    alive_count,              \* game_state["alive_count"]
    current_round,            \* self.current_round
    phase,                    \* game_state["phase"]
    pc,                       \* position of run_game
    has_medicine,             \* Witch.has_medicine
    has_poison,               \* Witch.has_poison
    used_medicine_this_round, \* Witch.used_medicine_this_round
    can_shoot,                \* Hunter.can_shoot
    death_confirmed,          \* Hunter.death_confirmed
    potion_log,               \* logger events of _log_ability_usage(w, save) and (w, poison)
    victim_id,                \* night_phase local
    saved_by_witch,           \* night_phase local
    poisoned_by_witch,        \* night_phase local
    witches,                  \* night_phase: the witches still to be asked
    night_deaths,             \* night_phase: the casualties still to be applied
    wolf_targets,             \* night_phase local: the targets the wolves named
    seers,                    \* night_phase: the living seers still to be asked
    check_target,             \* night_phase local: result["target"] of the seer asked
    alive_players,            \* voting_phase local: the voters, in roster order
    voters,                   \* voting_phase: the voters still to vote
    votes,                    \* voting_phase local: the tally
    current_attempt,          \* voting_phase local
    invalid_reason,           \* reason of the current voter's latest _log_invalid_vote
    vote_caller,              \* who called voting_phase: day_phase or run_game
    vote_logged,              \* game_state["votes"]: the record the running voting_phase appended last
    round_votes,              \* vote records of trust_network_data for current_round
    history,                  \* game_state["history"], counted per kind of entry
    ability_log,              \* logger events of _log_ability_usage(p, shot)
    winner,                   \* game_state["winner"]
    round_start_alive,        \* living players when the current round began
    discussions               \* whether game_state["discussions"] holds an entry

roleVars  == <<has_medicine, has_poison, used_medicine_this_round, can_shoot, death_confirmed,
               potion_log>>
seerVars  == <<wolf_targets, seers, check_target>>
nightVars == <<victim_id, saved_by_witch, poisoned_by_witch, witches, night_deaths, seerVars>>
voteVars  == <<alive_players, voters, votes, current_attempt, invalid_reason, vote_caller,
               vote_logged>>
lifeVars  == <<is_alive, alive_count>>
logVars   == <<round_votes, history, ability_log, winner, round_start_alive>>
stateVars == <<discussions>>

vars == <<config, role, lifeVars, current_round, phase, pc, roleVars, nightVars, voteVars, logVars,
          stateVars>>

\* ----------------------------------------------------------------- helpers
Players == DOMAIN role

\* A player id that is not a key of self.players.
Unknown == Len(role) + 1

Targets == Players \cup {Unknown}

OptTargets == Targets \cup {None}

\* BaseRole.is_wolf
is_wolf(p) == role[p] = "werewolf"

\* A role list that keeps the dead holders of the role.
LivingOf_WithDead(r) == SelectSeq([i \in 1..Len(role) |-> i], LAMBDA p: role[p] = r)

\* [pid for pid, role in self.players.items() if role.is_alive and role is r]
LivingOf(r) == SelectSeq([i \in 1..Len(role) |-> i], LAMBDA p: is_alive[p] /\ role[p] = r)

\* [pid for pid, role in self.players.items() if role.is_alive]
Living == SelectSeq([i \in 1..Len(role) |-> i], LAMBDA p: is_alive[p])

Range(s) == {s[i] : i \in DOMAIN s}

NumAlive == Cardinality({p \in Players : is_alive[p]})

\* ------------------------------------------------------------- role rules
\* Seer.can_check: only the seer's own is_alive is consulted.
can_check(seer, target_id) == is_alive[seer]

\* A medicine rule that does not look at the stock.
can_save_IgnoresStock(w) == is_alive[w] /\ ~used_medicine_this_round[w]

\* Witch.can_save (evaluated with the flags as they are when it is called)
can_save(w) == is_alive[w] /\ has_medicine[w] /\ ~used_medicine_this_round[w]

\* Witch.can_poison
can_poison(w) == is_alive[w] /\ has_poison[w]

\* A gun rule that looks at no flag.
can_use_gun_Always(confirmed, shoot) == TRUE

\* Hunter.can_use_gun, with the flags given
can_use_gun(confirmed, shoot) == confirmed /\ shoot

\* A use_gun that leaves the gun loaded.
use_gun_KeepsGun(confirmed, shoot) == shoot

\* Hunter.use_gun: the value of can_shoot afterwards
use_gun(confirmed, shoot) == IF can_use_gun(confirmed, shoot) THEN FALSE ELSE shoot

\* ------------------------------------------------------------ death record
\* The part of the state _handle_death and kill_player write.
Life == [is_alive |-> is_alive, alive_count |-> alive_count, history |-> history]

\* GameController._handle_death(player_id, reason) for a known player
handle_death(s, p) ==
    [ is_alive    |-> [s.is_alive EXCEPT ![p] = FALSE],
      alive_count |-> IF is_wolf(p)
                        THEN [s.alive_count EXCEPT !.werewolf = @ - 1]
                        ELSE [s.alive_count EXCEPT !.villager = @ - 1],
      history     |-> [s.history EXCEPT !.death[p] = @ + 1] ]

SetLife(s) ==
    /\ is_alive' = s.is_alive
    /\ alive_count' = s.alive_count
    /\ history' = s.history

\* A decision may name a dead player only while that player's death entries
\* stay within MaxDeathEntries (pending: entries this night already owes that player).
Nameable(t, pending) ==
    IF t \notin Players THEN TRUE
    ELSE IF is_alive[t] THEN TRUE
    ELSE history.death[t] + pending < MaxDeathEntries

\* ------------------------------------------------------------------- Init
\* GameController.__init__ followed by initialize_game
\* No record of game_state["votes"]
NoRecord == [voter |-> None, target |-> None, voter_role |-> "none", target_role |-> "none"]

\* The ai_type of a player entry: a key of config["ai_players"], a name
\* that is no key of it, or no ai_type at all
AiTypes == {"known", "unknown", "missing"}

Start(rosters) ==
    /\ role \in rosters
    /\ config = [roles |-> role, ai_type |-> [p \in DOMAIN role |-> "known"]]
    /\ is_alive = [p \in DOMAIN role |-> TRUE]
    /\ alive_count =
         [ werewolf |-> Cardinality({p \in DOMAIN role : role[p] = "werewolf"}),
           villager |-> Cardinality({p \in DOMAIN role : role[p] # "werewolf"}) ]
    /\ current_round = 1
    /\ phase = "init"
    /\ pc = "night"
    /\ has_medicine = [p \in DOMAIN role |-> role[p] = "witch"]
    /\ has_poison = [p \in DOMAIN role |-> role[p] = "witch"]
    /\ used_medicine_this_round = [p \in DOMAIN role |-> FALSE]
    /\ can_shoot = [p \in DOMAIN role |-> role[p] = "hunter"]
    /\ death_confirmed = [p \in DOMAIN role |-> FALSE]
    /\ potion_log = [p \in DOMAIN role |-> [save |-> 0, poison |-> 0]]
    /\ victim_id = None
    /\ saved_by_witch = FALSE
    /\ poisoned_by_witch = None
    /\ witches = <<>>
    /\ night_deaths = <<>>
    /\ wolf_targets = <<>>
    /\ seers = <<>>
    /\ check_target = None
    /\ alive_players = <<>>
    /\ voters = <<>>
    /\ votes = [p \in DOMAIN role |-> 0]
    /\ current_attempt = 0
    /\ invalid_reason = "none"
    /\ vote_caller = "none"
    /\ vote_logged = NoRecord
    /\ round_votes = 0
    /\ history = [ death |-> [p \in DOMAIN role |-> 0],
                   last_words |-> [p \in DOMAIN role |-> 0],
                   wolf_identify |-> 0,
                   seer_check |-> [p \in DOMAIN role |-> {}],
                   game_over |-> 0 ]
    /\ ability_log = [p \in DOMAIN role |-> 0]
    /\ winner = "unset"
    /\ round_start_alive = Len(role)
    /\ discussions = FALSE

Init == Start(Rosters)

\* The game of the six-player room.
Init6 == Start({SixPlayers})

\* --------------------------------------------------------------- run_game
NoNightLocals ==
    /\ wolf_targets' = <<>>
    /\ seers' = <<>>
    /\ check_target' = None
    /\ victim_id' = None
    /\ saved_by_witch' = FALSE
    /\ poisoned_by_witch' = None
    /\ witches' = <<>>
    /\ night_deaths' = <<>>

NoVoteLocals ==
    /\ alive_players' = <<>>
    /\ voters' = <<>>
    /\ votes' = [p \in Players |-> 0]
    /\ current_attempt' = 0
    /\ invalid_reason' = "none"
    /\ vote_caller' = "none"
    /\ vote_logged' = NoRecord

\* An exception raised in voting_phase: control is at run_game's inner
\* except clause and the locals of the phase are gone.
RaiseInVote ==
    /\ pc' = "except"
    /\ NoVoteLocals

\* --------------------------------------------------------- night_phase
\* night_phase, line 589: the seers' step is skipped when no seer is alive
AfterWolves == IF LivingOf("seer") = <<>> THEN "night_witch" ELSE "night_seer"

\* A wolves' step without the first-night rule.
WolfVictims_AnyNight(round, targets) ==
    IF targets # <<>> THEN Range(targets) ELSE {None}

\* The candidate victims the wolves' step may produce from wolf_targets.
WolfVictims(round, targets) ==
    IF round = 1 THEN {None}
    ELSE IF targets # <<>> THEN Range(targets) ELSE {None}

\* night_phase, lines 525-586: the living wolves are asked in roster order
NightWolves ==
    /\ pc = "night"
    /\ phase' = "night"
    /\ UNCHANGED <<config, role, stateVars, lifeVars, current_round, roleVars, voteVars>>
    /\ UNCHANGED <<round_votes, ability_log, winner, round_start_alive>>
    /\ saved_by_witch' = FALSE
    /\ poisoned_by_witch' = None
    /\ witches' = <<>>
    /\ night_deaths' = <<>>
    /\ check_target' = None
    /\ LET wolves == LivingOf("werewolf") IN
       IF wolves = <<>>
         THEN /\ pc' = AfterWolves
              /\ seers' = LivingOf("seer")
              /\ victim_id' = None
              /\ wolf_targets' = <<>>
              /\ UNCHANGED history
         ELSE \/ \* a wolf's discuss call raises
                 /\ pc' = "except"
                 /\ victim_id' = None
                 /\ wolf_targets' = <<>>
                 /\ seers' = <<>>
                 /\ UNCHANGED history
              \/ \E tg \in [1..Len(wolves) -> {t \in OptTargets : Nameable(t, 0)}] :
                 /\ wolf_targets' = SelectSeq(tg, LAMBDA t : t # None)
                 /\ victim_id' \in WolfVictims(current_round, wolf_targets')
                 /\ history' = IF current_round = 1
                                 THEN [history EXCEPT !.wolf_identify = @ + 1]
                                 ELSE history
                 /\ seers' = LivingOf("seer")
                 /\ pc' = AfterWolves

\* night_phase, lines 589-598: the first seer still to be asked returns a
\* check_player result (wolf_targets is not read after line 585)
NightSeer ==
    /\ pc = "night_seer"
    /\ seers # <<>>
    /\ UNCHANGED <<config, role, stateVars, lifeVars, current_round, phase, roleVars, voteVars, logVars>>
    /\ \/ \E target_id \in OptTargets :
            /\ check_target' = target_id
            /\ wolf_targets' = <<>>
            /\ pc' = "seer_check"
            /\ UNCHANGED <<victim_id, saved_by_witch, poisoned_by_witch, witches>>
            /\ UNCHANGED <<night_deaths, seers>>
       \/ \* the check_player call raises
          /\ pc' = "except"
          /\ NoNightLocals

\* night_phase, lines 600-604: a check that names a target passes can_check,
\* then either self.players[target_id] raises KeyError or
\* seer.check_role(target_id, is_wolf) raises TypeError (Seer.check_role
\* takes one argument).
SeerRaises(seer, target_id) ==
    /\ target_id # None
    /\ can_check(seer, target_id)

\* Seer.check_role and night_phase, lines 605-627: the record of a check
seer_check_record(h, seer, target_id) ==
    [h EXCEPT !.seer_check[seer] = @ \cup {<<target_id, is_wolf(target_id)>>}]

\* night_phase, lines 596-631: the result of the seer asked is handled
SeerCheck ==
    /\ pc = "seer_check"
    /\ UNCHANGED <<config, role, stateVars, lifeVars, current_round, phase, roleVars, voteVars>>
    /\ UNCHANGED <<round_votes, ability_log, winner, round_start_alive>>
    /\ LET seer == Head(seers) IN
       IF SeerRaises(seer, check_target)
         THEN /\ pc' = "except"
              /\ NoNightLocals
              /\ UNCHANGED history
         ELSE /\ pc' = IF Tail(seers) = <<>> THEN "night_witch" ELSE "night_seer"
              /\ seers' = Tail(seers)
              /\ check_target' = None
              /\ history' = IF check_target # None /\ can_check(seer, check_target)
                              THEN seer_check_record(history, seer, check_target)
                              ELSE history
              /\ UNCHANGED <<victim_id, saved_by_witch, poisoned_by_witch, witches>>
              /\ UNCHANGED <<night_deaths, wolf_targets>>

\* A night that asks the witches whether or not there is a victim.
AfterVictim_AlwaysWitches(victim) ==
    IF victim # None /\ victim \notin Players THEN "except" ELSE "witch_loop"

\* night_phase, lines 633-635: where the night goes once the victim is
\* known: past the witches without one, and to the KeyError of
\* self.players[victim_id] for an id that is no player
AfterVictim(victim) ==
    IF victim = None THEN "night_casualties"
    ELSE IF victim \notin Players THEN "except"
    ELSE "witch_loop"

\* night_phase, lines 633-637: the victim is announced and the living
\* witches are lined up.
NightVictim ==
    /\ pc = "night_witch"
    /\ UNCHANGED <<config, role, stateVars, lifeVars, current_round, phase, roleVars, voteVars, logVars>>
    /\ pc' = AfterVictim(victim_id)
    /\ IF pc' = "night_casualties"
         THEN /\ wolf_targets' = <<>>
              /\ UNCHANGED <<victim_id, saved_by_witch, poisoned_by_witch, witches>>
              /\ UNCHANGED <<night_deaths, seers, check_target>>
         ELSE IF pc' = "except"
           THEN NoNightLocals
           ELSE /\ witches' = LivingOf("witch")
                /\ wolf_targets' = <<>>
                /\ UNCHANGED <<victim_id, saved_by_witch, poisoned_by_witch, night_deaths>>
                /\ UNCHANGED <<seers, check_target>>

\* What the witch's answer holds: the words for the medicine, the words for
\* the poison, and the target _extract_target reads from it
WitchResponses ==
    [save : BOOLEAN, poison : BOOLEAN, target : OptTargets]

\* WitchAgent.use_potion, lines 889-907: the decision parsed from the answer
use_potion(w, response, victim) ==
    IF response.save /\ victim # None /\ can_save(w)
      THEN [type |-> "save", target |-> victim]
    ELSE IF response.poison /\ can_poison(w) /\ response.target # None
      THEN [type |-> "poison", target |-> response.target]
    ELSE [type |-> "skip", target |-> None]

\* A reset_round that leaves the flag as it is.
reset_round_KeepsFlag(used, w) == used

\* Witch.reset_round, called at line 687 when the witch's decision is handled
reset_round(used, w) == [used EXCEPT ![w] = FALSE]

\* night_phase, lines 644-674, with Witch.use_medicine and Witch.use_poison:
\* what the decision of witch w changes
apply_potion(w, result) ==
    LET same == [ saved_by_witch    |-> saved_by_witch,
                  poisoned_by_witch |-> poisoned_by_witch,
                  has_medicine      |-> has_medicine,
                  has_poison        |-> has_poison,
                  potion_log        |-> potion_log,
                  used_medicine_this_round |-> used_medicine_this_round ]
    IN  IF result.type = "save"
          THEN IF can_save(w)
                 THEN [same EXCEPT !.saved_by_witch = TRUE,
                                   !.has_medicine[w] = FALSE,
                                   !.used_medicine_this_round[w] = TRUE,
                                   !.potion_log[w].save = @ + 1]
                 ELSE same
        ELSE IF result.type = "poison" /\ result.target # None
          THEN IF can_poison(w)
                 THEN [same EXCEPT !.poisoned_by_witch = result.target,
                                   !.has_poison[w] = FALSE,
                                   !.potion_log[w].poison = @ + 1]
                 ELSE same
        ELSE same

\* night_phase, lines 639-689: one iteration of the loop over the witches
WitchAct ==
    /\ pc = "witch_loop"
    /\ witches # <<>>
    /\ UNCHANGED <<config, role, stateVars, lifeVars, current_round, phase, can_shoot, death_confirmed>>
    /\ UNCHANGED <<voteVars, logVars>>
    /\ LET w == Head(witches) IN
       \/ \* use_potion raises
          /\ pc' = "except"
          /\ NoNightLocals
          /\ UNCHANGED <<has_medicine, has_poison, used_medicine_this_round, potion_log>>
       \/ \E response \in WitchResponses :
          LET result == use_potion(w, response, victim_id)
              after  == apply_potion(w, result)
          IN
          /\ result.type = "poison"
                => Nameable(result.target,
                            IF result.target = victim_id /\ ~saved_by_witch THEN 1 ELSE 0)
          /\ pc' = "witch_loop"
          /\ UNCHANGED <<victim_id, night_deaths, seerVars>>
          /\ witches' = Tail(witches)
          /\ saved_by_witch' = after.saved_by_witch
          /\ poisoned_by_witch' = after.poisoned_by_witch
          /\ has_medicine' = after.has_medicine
          /\ has_poison' = after.has_poison
          /\ potion_log' = after.potion_log
          /\ used_medicine_this_round' = reset_round(after.used_medicine_this_round, w)

\* A casualty list with the poison casualty first.
NightDeathsOf_PoisonFirst(victim, saved, poisoned) ==
    (IF poisoned # None THEN << <<poisoned, "poison">> >> ELSE <<>>)
    \o (IF victim # None /\ ~saved THEN << <<victim, "wolf">> >> ELSE <<>>)

\* A casualty list that ignores the witches' save.
NightDeathsOf_IgnoresSave(victim, saved, poisoned) ==
    (IF victim # None THEN << <<victim, "wolf">> >> ELSE <<>>)
    \o (IF poisoned # None THEN << <<poisoned, "poison">> >> ELSE <<>>)

\* night_phase, lines 691-700: the night's casualty list
NightDeathsOf(victim, saved, poisoned) ==
    (IF victim # None /\ ~saved THEN << <<victim, "wolf">> >> ELSE <<>>)
    \o (IF poisoned # None THEN << <<poisoned, "poison">> >> ELSE <<>>)

NightCasualties ==
    /\ \/ pc = "night_casualties"
       \/ pc = "witch_loop" /\ witches = <<>>
    /\ pc' = "night_deaths"
    /\ night_deaths' = NightDeathsOf(victim_id, saved_by_witch, poisoned_by_witch)
    /\ UNCHANGED <<config, role, stateVars, lifeVars, current_round, phase, roleVars, voteVars, logVars>>
    /\ UNCHANGED <<victim_id, saved_by_witch, poisoned_by_witch, witches, seerVars>>

\* night_phase, lines 703-736: one iteration of the loop over night_deaths:
\* _handle_death, and for a Hunter confirm_death and the shot.
ApplyNightDeath ==
    /\ pc = "night_deaths"
    /\ night_deaths # <<>>
    /\ UNCHANGED <<config, role, stateVars, current_round, phase, has_medicine, has_poison>>
    /\ UNCHANGED <<used_medicine_this_round, potion_log, voteVars>>
    /\ UNCHANGED <<round_votes, winner, round_start_alive>>
    /\ LET player_id == Head(night_deaths)[1] IN
       IF player_id \notin Players
         THEN \* self.players[player_id] raises KeyError
              /\ pc' = "except"
              /\ NoNightLocals
              /\ UNCHANGED <<lifeVars, history, can_shoot, death_confirmed, ability_log>>
         ELSE LET dead == handle_death(Life, player_id) IN
              IF role[player_id] # "hunter"
                THEN /\ SetLife(dead)
                     /\ pc' = "night_deaths"
                     /\ night_deaths' = Tail(night_deaths)
                     /\ UNCHANGED <<can_shoot, death_confirmed, ability_log>>
                     /\ UNCHANGED <<victim_id, saved_by_witch, poisoned_by_witch, witches, seerVars>>
                ELSE /\ death_confirmed' = [death_confirmed EXCEPT ![player_id] = TRUE]
                     /\ IF ~can_use_gun(TRUE, can_shoot[player_id])
                          THEN /\ SetLife(dead)
                               /\ pc' = "night_deaths"
                               /\ night_deaths' = Tail(night_deaths)
                               /\ UNCHANGED <<can_shoot, ability_log>>
                               /\ UNCHANGED <<victim_id, saved_by_witch, poisoned_by_witch, witches, seerVars>>
                          ELSE \/ \* the hunter's shoot call raises
                                  /\ SetLife(dead)
                                  /\ pc' = "except"
                                  /\ NoNightLocals
                                  /\ UNCHANGED <<can_shoot, ability_log>>
                               \/ \E target_id \in OptTargets :
                                  /\ pc' = "night_deaths"
                                  /\ night_deaths' = Tail(night_deaths)
                                  /\ UNCHANGED <<victim_id, saved_by_witch, poisoned_by_witch, witches, seerVars>>
                                  /\ IF /\ target_id # None
                                        /\ target_id \in Players
                                        /\ dead.is_alive[target_id]
                                       THEN /\ can_shoot' = [can_shoot EXCEPT
                                                 ![player_id] = use_gun(TRUE, @)]
                                            /\ ability_log' = [ability_log EXCEPT
                                                 ![player_id] = @ + 1]
                                            /\ SetLife(handle_death(dead, target_id))
                                       ELSE /\ SetLife(dead)
                                            /\ UNCHANGED <<can_shoot, ability_log>>

\* night_phase returns: its locals are gone
NightEnd ==
    /\ pc = "night_deaths"
    /\ night_deaths = <<>>
    /\ pc' = "check_night"
    /\ NoNightLocals
    /\ UNCHANGED <<config, role, stateVars, lifeVars, current_round, phase, roleVars, voteVars, logVars>>

\* ------------------------------------------- the state handed to the agents
\* game_state["players"]: initialize_game stores every player's role in it
game_state_players ==
    [p \in Players |-> [is_alive |-> is_alive[p], role |-> role[p]]]

\* self.game_state, the one dict every decision call receives
\* (agent.check_player(self.game_state), agent.vote(self.game_state), ...)
game_state ==
    [ players     |-> game_state_players,
      alive_count |-> alive_count,
      seer_checks |-> history.seer_check,
      votes       |-> vote_logged,
      discussions |-> discussions ]

\* Whether player t's is-werewolf fact can be read from a state: from t's
\* role entry or from a recorded check of t.
ReadsIsWolf(state, t) ==
    \/ "role" \in DOMAIN state.players[t]
    \/ \E s \in DOMAIN state.seer_checks : \E e \in state.seer_checks[s] : e[1] = t

\* ------------------------------------------------- win check and the winner
\* GameController.check_game_over
check_game_over(cnt) ==
    \/ cnt.werewolf = 0
    \/ cnt.werewolf >= cnt.villager

\* A winner that is a draw whenever a werewolf is alive.
announce_winner_DrawWithWolves(alive) ==
    IF \E p \in Players : alive[p] /\ is_wolf(p) THEN "draw" ELSE "villager"

\* A winner that is the werewolves whenever a werewolf is alive at the end.
announce_winner_WolvesAtParity(alive) ==
    IF \E p \in Players : alive[p] /\ is_wolf(p) THEN "werewolf" ELSE "villager"

\* GameController.announce_winner: the value written to game_state["winner"]
announce_winner(alive) ==
    LET werewolf_alive == \E p \in Players : alive[p] /\ is_wolf(p)
        villager_alive == \E p \in Players : alive[p] /\ ~is_wolf(p)
    IN  IF werewolf_alive /\ ~villager_alive THEN "werewolf"
        ELSE IF ~werewolf_alive THEN "villager"
        ELSE "draw"

\* run_game: where control goes after a win check that lets the game continue
AfterCheck(at) ==
    CASE at = "check_night" -> "day"
      [] at = "check_day"   -> "vote_begin"
      [] at = "check_vote"  -> "next"

\* A loop that goes on to the next round after announce_winner.
LoopExit_GoesOn == "next"

\* run_game, lines 247-248: game_over = True and break leave the loop
LoopExit == "done"

\* run_game, lines 244-248, 261-265, 271-275
CheckGameOver ==
    /\ pc \in {"check_night", "check_day", "check_vote"}
    /\ UNCHANGED <<config, role, stateVars, lifeVars, current_round, phase, roleVars, nightVars>>
    /\ UNCHANGED <<alive_players, voters, votes, current_attempt, invalid_reason, vote_logged>>
    /\ UNCHANGED <<round_votes, ability_log, round_start_alive>>
    /\ IF check_game_over(alive_count)
         THEN /\ winner' = announce_winner(is_alive)
              /\ history' = [history EXCEPT !.game_over = @ + 1]
              /\ pc' = LoopExit
              /\ UNCHANGED vote_caller
         ELSE /\ pc' = AfterCheck(pc)
              /\ vote_caller' = IF pc = "check_day" THEN "run_game" ELSE vote_caller
              /\ UNCHANGED <<winner, history>>

\* The classes whose agents speak through BaseAIAgent.discuss: WerewolfAgent
\* and VillagerAgent override it, SeerAgent, WitchAgent and HunterAgent do not.
UsesBaseDiscuss(p) == role[p] \in {"seer", "witch", "hunter"}

\* BaseAIAgent.discuss, lines 252-258: the game_state the call leaves behind
discuss(state, p) ==
    IF UsesBaseDiscuss(p) THEN [state EXCEPT !.discussions = TRUE] ELSE state

\* The game_state after the discuss calls of the speakers, in order
RECURSIVE discuss_all(_, _)
discuss_all(state, speakers) ==
    IF speakers = <<>> THEN state
    ELSE discuss_all(discuss(state, Head(speakers)), Tail(speakers))

\* day_phase and discussion_phase.  A speaker's discuss call may raise, and a
\* first-round speech shorter than 20 characters reaches self.logger.warning,
\* which GameLogger does not define (AttributeError).
DayPhase ==
    /\ pc = "day"
    /\ phase' = "day"
    /\ UNCHANGED <<config, role, lifeVars, current_round, roleVars, nightVars, logVars>>
    /\ UNCHANGED <<alive_players, voters, votes, current_attempt, invalid_reason, vote_logged>>
    /\ LET spoken == discuss_all(game_state, Living).discussions IN
       \/ /\ pc' = "vote_begin"
          /\ vote_caller' = "day_phase"
          /\ discussions' = spoken
       \/ /\ Living # <<>>
          /\ pc' = "except"
          /\ discussions' \in {discussions, spoken}
          /\ UNCHANGED vote_caller

\* ----------------------------------------------------------- voting_phase
\* voting_phase, lines 916-944
VoteBegin ==
    /\ pc = "vote_begin"
    /\ pc' = "vote"
    /\ alive_players' = Living
    /\ voters' = Living
    /\ votes' = [p \in Players |-> 0]
    /\ current_attempt' = 0
    /\ invalid_reason' = "none"
    /\ vote_logged' = NoRecord
    /\ UNCHANGED <<config, role, stateVars, lifeVars, current_round, phase, roleVars, nightVars, logVars>>
    /\ UNCHANGED vote_caller

\* A vote check without the self-vote rule.
VoteCheck_AllowsSelf(player_id, target_id) ==
    IF target_id = None THEN "format"
    ELSE IF target_id \notin Players THEN "unknown"
    ELSE IF ~is_alive[target_id] THEN "dead"
    ELSE "valid"

\* A vote check without the rule on dead targets.
VoteCheck_AllowsDead(player_id, target_id) ==
    IF target_id = None THEN "format"
    ELSE IF target_id = player_id THEN "self"
    ELSE IF target_id \notin Players THEN "unknown"
    ELSE "valid"

\* voting_phase, lines 1003-1014 and 1047-1049: why a vote is rejected
\* ("valid" when it is counted)
VoteCheck(player_id, target_id) ==
    IF target_id = None THEN "format"
    ELSE IF target_id = player_id THEN "self"
    ELSE IF target_id \notin Players THEN "unknown"
    ELSE IF ~is_alive[target_id] THEN "dead"
    ELSE "valid"

\* The end of one voter's iteration
NextVoter ==
    /\ voters' = Tail(voters)
    /\ current_attempt' = 0
    /\ invalid_reason' = "none"

\* A tally that counts a vote twice.
count_vote_Twice(tally, target_id) == [tally EXCEPT ![target_id] = @ + 2]

\* voting_phase, lines 1016 and 1057: votes[target_id] = votes.get(target_id, 0) + 1
count_vote(tally, target_id) == [tally EXCEPT ![target_id] = @ + 1]

\* _log_vote, lines 104-111: the record appended to game_state["votes"]
\* carries voter_role and target_role
log_vote(voter_id, target_id) ==
    [ voter       |-> voter_id,
      target      |-> target_id,
      voter_role  |-> role[voter_id],
      target_role |-> role[target_id] ]

\* A counted vote: the tally, the _log_vote record, and the next voter
CastVote(player_id, target_id) ==
    /\ votes' = count_vote(votes, target_id)
    /\ vote_logged' = log_vote(player_id, target_id)
    /\ NextVoter

\* voting_phase, lines 959-1049: one pass of the while loop of the first voter
VoteAttempt ==
    /\ pc = "vote"
    /\ voters # <<>>
    /\ current_attempt < 3
    /\ UNCHANGED <<config, role, stateVars, lifeVars, current_round, phase, roleVars, nightVars, logVars>>
    /\ LET player_id == Head(voters) IN
       \/ \* the vote call raises
          /\ RaiseInVote
       \/ \E target_id \in OptTargets :
          LET check == VoteCheck(player_id, target_id) IN
          /\ pc' = "vote"
          /\ UNCHANGED <<alive_players, vote_caller>>
          /\ IF check = "valid"
               THEN CastVote(player_id, target_id)
               ELSE /\ invalid_reason' = check
                    /\ current_attempt' = current_attempt + 1
                    /\ UNCHANGED <<votes, voters, vote_logged>>

\* A fallback that may pick the voter.
PossibleTargets_WithVoter(player_id) == alive_players

\* voting_phase, lines 1051-1088: the random vote after three invalid attempts
PossibleTargets(player_id) ==
    SelectSeq(alive_players, LAMBDA pid : pid # player_id)

VoteFallback ==
    /\ pc = "vote"
    /\ voters # <<>>
    /\ current_attempt = 3
    /\ UNCHANGED <<config, role, stateVars, lifeVars, current_round, phase, roleVars, nightVars, logVars>>
    /\ LET player_id == Head(voters)
           possible_targets == PossibleTargets(player_id)
       IN  IF possible_targets # <<>>
             THEN \E target_id \in Range(possible_targets) :
                  /\ CastVote(player_id, target_id)
                  /\ pc' = "vote"
                  /\ UNCHANGED <<alive_players, vote_caller>>
             ELSE \* self.logger.warning: GameLogger has no such method
                  RaiseInVote

\* A resolver that may pick any player who received a vote.
MostVoted_AnyVoted(tally) == {p \in Players : tally[p] > 0}

\* voting_phase, lines 1102-1103: the targets holding the most votes
MostVoted(tally) ==
    LET max_votes == CHOOSE n \in {tally[p] : p \in Players} :
                         \A p \in Players : tally[p] <= n
    IN  {p \in Players : tally[p] > 0 /\ tally[p] = max_votes}

\* kill_player, lines 1179-1181: whether last words are asked for; the reason
\* strings stand for "公投出局" (public_vote_out) and "投票处决" (vote_execution)
AsksLastWords(round, reason) == round = 1 \/ reason = "public_vote_out"

\* kill_player up to the last-words call: is_alive and the counter
kill_player_head(s, p) ==
    [ is_alive    |-> [s.is_alive EXCEPT ![p] = FALSE],
      alive_count |-> IF is_wolf(p)
                        THEN [s.alive_count EXCEPT !.werewolf = @ - 1]
                        ELSE [s.alive_count EXCEPT !.villager = @ - 1],
      history     |-> s.history ]

\* voting_phase, lines 1096-1153, with kill_player(voted_out, "vote_execution", True)
VoteResolve ==
    /\ pc = "vote"
    /\ voters = <<>>
    /\ round_votes' = round_votes + 1
    /\ UNCHANGED <<config, role, stateVars, current_round, phase, roleVars, nightVars>>
    /\ UNCHANGED <<ability_log, winner, round_start_alive>>
    /\ NoVoteLocals
    /\ LET back == IF vote_caller = "day_phase" THEN "check_day" ELSE "check_vote" IN
       IF \A p \in Players : votes[p] = 0
         THEN /\ pc' = back
              /\ UNCHANGED <<lifeVars, history>>
         ELSE \E out \in MostVoted(votes) :
              LET head == kill_player_head(Life, out) IN
              /\ is_alive' = head.is_alive
              /\ alive_count' = head.alive_count
              /\ IF AsksLastWords(current_round, "vote_execution")
                   THEN \/ \* the last_words call raises
                           /\ pc' = "except"
                           /\ UNCHANGED history
                        \/ /\ pc' = back
                           /\ history' = [history EXCEPT !.last_words[out] = @ + 1,
                                                         !.death[out] = @ + 1]
                   ELSE /\ pc' = back
                        /\ history' = [history EXCEPT !.death[out] = @ + 1]

\* ------------------------------------------------------- round transitions
\* A round counter that stays where it is.
NextRoundNumber_Stays(r) == r

\* self.current_round += 1, within the counted range
NextRoundNumber(r) == IF r < MaxRound THEN r + 1 ELSE MaxRound

StartRound ==
    /\ current_round' = NextRoundNumber(current_round)
    /\ round_votes' = 0
    /\ round_start_alive' = NumAlive
    /\ pc' = "night"

\* run_game, lines 277-290: the round ended normally
NextRound ==
    /\ pc = "next"
    /\ StartRound
    /\ UNCHANGED <<config, role, stateVars, lifeVars, phase, roleVars, nightVars, voteVars>>
    /\ UNCHANGED <<history, ability_log, winner>>

\* run_game, lines 291-296: a phase raised
RoundError ==
    /\ pc = "except"
    /\ StartRound
    /\ UNCHANGED <<config, role, stateVars, lifeVars, phase, roleVars, nightVars, voteVars>>
    /\ UNCHANGED <<history, ability_log, winner>>

Next ==
    \/ NightWolves
    \/ NightSeer
    \/ SeerCheck
    \/ NightVictim
    \/ WitchAct
    \/ NightCasualties
    \/ ApplyNightDeath
    \/ NightEnd
    \/ CheckGameOver
    \/ DayPhase
    \/ VoteBegin
    \/ VoteAttempt
    \/ VoteFallback
    \/ VoteResolve
    \/ NextRound
    \/ RoundError

Spec == Init /\ [][Next]_vars

\* run_game in a room without Seer and Witch: their steps never run.
Next6 ==
    \/ NightWolves
    \/ NightVictim
    \/ NightCasualties
    \/ ApplyNightDeath
    \/ NightEnd
    \/ CheckGameOver
    \/ DayPhase
    \/ VoteBegin
    \/ VoteAttempt
    \/ VoteFallback
    \/ VoteResolve
    \/ NextRound
    \/ RoundError

Spec6 == Init6 /\ [][Next6]_vars

\* run_game is one thread that always takes its next step
FairSpec == Spec /\ WF_vars(Next)

\* ---------------------------------------------------------- initialize_game
\* The role lists of two five-player rooms; "guard" is a key that names no role.
SetupRosters ==
    { <<"werewolf", "villager", "villager", "villager", "villager">>,
      <<"werewolf", "guard", "villager", "villager", "villager">> }

\* utils.game_utils.validate_game_config, which main runs on the role
\* configuration before GameController is built
validate_game_config(roles) ==
    LET total_players  == Len(roles)
        werewolf_count == Cardinality({p \in DOMAIN roles : roles[p] = "werewolf"})
    IN  /\ \E p \in DOMAIN roles : roles[p] = "werewolf"
        /\ \E p \in DOMAIN roles : roles[p] = "villager"
        /\ total_players >= 3
        /\ werewolf_count # 0
        /\ 2 * werewolf_count < total_players

\* initialize_game, lines 171-185: the role object made for a role key
role_of(role_type) ==
    IF role_type \in {"werewolf", "seer", "witch", "hunter"} THEN role_type
    ELSE "villager"

\* A setup that stops only at a player without ai_type.
binding_fails_OnlyMissing(ai_type) == ai_type = "missing"

\* initialize_game, lines 196-202: self.logger.warning for a missing ai_type
\* (GameLogger has no such method) and ValueError for an unknown one
binding_fails(ai_type) == ai_type = "missing" \/ ai_type = "unknown"

\* GameController.__init__: no player exists yet
InitSetup ==
    /\ config \in { c \in UNION { [roles : {r}, ai_type : [DOMAIN r -> AiTypes]] :
                                      r \in SetupRosters } :
                       validate_game_config(c.roles) }
    /\ role = <<>>
    /\ is_alive = <<>>
    /\ alive_count = [werewolf |-> 0, villager |-> 0]
    /\ current_round = 1
    /\ phase = "init"
    /\ pc = "setup"
    /\ has_medicine = <<>>
    /\ has_poison = <<>>
    /\ used_medicine_this_round = <<>>
    /\ can_shoot = <<>>
    /\ death_confirmed = <<>>
    /\ potion_log = <<>>
    /\ victim_id = None
    /\ saved_by_witch = FALSE
    /\ poisoned_by_witch = None
    /\ witches = <<>>
    /\ night_deaths = <<>>
    /\ wolf_targets = <<>>
    /\ seers = <<>>
    /\ check_target = None
    /\ alive_players = <<>>
    /\ voters = <<>>
    /\ votes = <<>>
    /\ current_attempt = 0
    /\ invalid_reason = "none"
    /\ vote_caller = "none"
    /\ vote_logged = NoRecord
    /\ round_votes = 0
    /\ history = [ death |-> <<>>, last_words |-> <<>>, wolf_identify |-> 0,
                   seer_check |-> <<>>, game_over |-> 0 ]
    /\ ability_log = <<>>
    /\ winner = "unset"
    /\ round_start_alive = 0
    /\ discussions = FALSE

\* run_game, lines 219-232 and 320-332, with initialize_game: the players are
\* created in order up to the first one whose binding fails; the exception
\* is caught by run_game's outer except clause, which ends run_game.
InitializeGame ==
    /\ pc = "setup"
    /\ LET n       == Len(config.roles)
           failing == {p \in 1..n : binding_fails(config.ai_type[p])}
           last    == IF failing = {} THEN n
                      ELSE CHOOSE p \in failing : \A q \in failing : p <= q
           created == [p \in 1..last |-> role_of(config.roles[p])]
       IN  /\ role' = created
           /\ is_alive' = [p \in 1..last |-> TRUE]
           /\ alive_count' =
                [ werewolf |-> Cardinality({p \in 1..last : created[p] = "werewolf"}),
                  villager |-> Cardinality({p \in 1..last : created[p] # "werewolf"}) ]
           /\ has_medicine' = [p \in 1..last |-> created[p] = "witch"]
           /\ has_poison' = [p \in 1..last |-> created[p] = "witch"]
           /\ used_medicine_this_round' = [p \in 1..last |-> FALSE]
           /\ can_shoot' = [p \in 1..last |-> created[p] = "hunter"]
           /\ death_confirmed' = [p \in 1..last |-> FALSE]
           /\ potion_log' = [p \in 1..last |-> [save |-> 0, poison |-> 0]]
           /\ votes' = [p \in 1..last |-> 0]
           /\ history' = [ death |-> [p \in 1..last |-> 0],
                           last_words |-> [p \in 1..last |-> 0],
                           wolf_identify |-> 0,
                           seer_check |-> [p \in 1..last |-> {}],
                           game_over |-> 0 ]
           /\ ability_log' = [p \in 1..last |-> 0]
           /\ round_start_alive' = last
           /\ pc' = IF failing = {} THEN "night" ELSE "aborted"
    /\ UNCHANGED <<config, stateVars, current_round, phase, nightVars>>
    /\ UNCHANGED <<alive_players, voters, current_attempt, invalid_reason, vote_caller>>
    /\ UNCHANGED <<vote_logged, round_votes, winner>>

\* run_game from the construction of the controller on, in the rooms of
\* SetupRosters (no Seer, no Witch)
NextSetup ==
    \/ InitializeGame
    \/ NightWolves
    \/ NightVictim
    \/ NightCasualties
    \/ ApplyNightDeath
    \/ NightEnd
    \/ CheckGameOver
    \/ DayPhase
    \/ VoteBegin
    \/ VoteAttempt
    \/ VoteFallback
    \/ VoteResolve
    \/ NextRound
    \/ RoundError

SpecSetup == InitSetup /\ [][NextSetup]_vars

TypeOK ==
    /\ pc \in {"setup", "aborted", "night", "night_seer", "seer_check", "night_witch", "witch_loop", "night_casualties",
               "night_deaths", "check_night", "day", "vote_begin", "vote", "check_day",
               "check_vote", "next", "except", "done"}
    /\ current_round \in 1..MaxRound
    /\ \A p \in Players : history.death[p] \in 0..MaxDeathEntries

\* ----------------------------------------------------------------- claims
LivingWolves == Cardinality({p \in Players : is_alive[p] /\ is_wolf(p)})

LivingVillagers == Cardinality({p \in Players : is_alive[p] /\ ~is_wolf(p)})

\* C1: in every reachable state alive_count.werewolf is the number of living
\* werewolves and alive_count.villager the number of living non-werewolves.
AliveCountsMatch ==
    /\ alive_count.werewolf = LivingWolves
    /\ alive_count.villager = LivingVillagers

NightPcs == {"night_seer", "seer_check", "night_witch", "witch_loop", "night_casualties", "night_deaths"}

\* C11: in the room of two Werewolves and four Villagers, once the first
\* round's day vote has left werewolf = 2 and villager = 3, the counts stay so
\* for the rest of round 1 and the game goes on.
CountsKeptIntoRound2 ==
    [][(current_round = 1 /\ alive_count = [werewolf |-> 2, villager |-> 3]) =>
          /\ alive_count' = alive_count
          /\ pc' # "done"]_vars

\* C12: no phase (night, day, vote) starts while the win condition holds: the
\* win check has run after every elimination before the next phase begins.
NoPhaseWhileWon ==
    pc \in {"night", "day", "vote_begin"} => ~check_game_over(alive_count)

\* C2: in round 1, from the end of the wolves' step to the win check after the
\* night, no candidate victim and no casualty exists, nobody has died, and the
\* wolves' step has appended one wolf_identify entry.
Round1NightKillsNobody ==
    (current_round = 1 /\ pc \in NightPcs \cup {"check_night"}) =>
        /\ victim_id = None
        /\ poisoned_by_witch = None
        /\ night_deaths = <<>>
        /\ \A p \in Players : is_alive[p] /\ history.death[p] = 0
        /\ history.wolf_identify = 1

Round1NightDone ==
    /\ current_round = 1
    /\ pc = "check_night"
    /\ history.wolf_identify = 1
    /\ \A p \in Players : is_alive[p]

\* C3: no player has more than one death entry in the history, that is, the
\* death handlers are applied to each player at most once.
DiesAtMostOnce == \A p \in Players : history.death[p] <= 1

\* C4: run_game eventually reaches the game-over state.
GameEventuallyOver == <>(pc = "done")

\* C5 as stated: once a witch has saved the wolves' victim V, the rest of the
\* night neither changes V's is_alive nor appends a death entry for V.
SavedVictimSurvives ==
    [][(pc \in NightPcs /\ saved_by_witch) =>
          /\ is_alive'[victim_id] = is_alive[victim_id]
          /\ history'.death[victim_id] = history.death[victim_id]]_vars

\* C5: once a witch has saved the wolves' victim V, the night's casualty list
\* never holds V as the wolves' kill, and V dies in that night only as a
\* witch's poison target or as the target of a Hunter's shot.
SavedVictimNotWolfKill ==
    [][(pc \in NightPcs /\ saved_by_witch) =>
          /\ \A i \in DOMAIN night_deaths' : night_deaths'[i] # <<victim_id, "wolf">>
          /\ IF is_alive[victim_id] /\ ~is_alive'[victim_id]
               THEN \/ Head(night_deaths) = <<victim_id, "poison">>
                    \/ ability_log' # ability_log
               ELSE TRUE]_vars

SavedVictimAlive ==
    /\ pc = "night_deaths"
    /\ night_deaths = <<>>
    /\ saved_by_witch
    /\ victim_id \in Players
    /\ is_alive[victim_id]
    /\ history.death[victim_id] = 0

\* C6: every Hunter fires at most one shot per game, and once a Hunter has
\* fired, can_shoot is false in every later state.
HunterShootsOnce ==
    \A h \in Players :
        /\ ability_log[h] <= 1
        /\ ability_log[h] >= 1 => ~can_shoot[h]

HunterShotAndDiedAgain ==
    \E h \in Players :
        /\ role[h] = "hunter"
        /\ ability_log[h] = 1
        /\ history.death[h] = 2

\* C7: when voting_phase resolves a non-empty tally, the player it eliminates
\* holds the maximum vote count and was alive immediately before.
HoldsMaximum(p, tally) ==
    /\ tally[p] > 0
    /\ \A q \in Players : tally[q] <= tally[p]

VotedOutHoldsMaximum ==
    [][(pc = "vote" /\ voters = <<>> /\ \E p \in Players : votes[p] > 0) =>
          \E out \in Players :
              /\ HoldsMaximum(out, votes)
              /\ is_alive[out] /\ ~is_alive'[out]
              /\ \A q \in Players \ {out} : is_alive'[q] = is_alive[q]]_vars

TieAtResolution ==
    /\ pc = "vote"
    /\ voters = <<>>
    /\ Cardinality({p \in Players : HoldsMaximum(p, votes)}) >= 2

\* C8: no step of a voter's turn (an attempt or the random fallback) adds a
\* vote for the voter's own id.
SelfVoteNeverTallied ==
    [][(pc = "vote" /\ voters # <<>> /\ pc' = "vote") =>
          votes'[Head(voters)] = votes[Head(voters)]]_vars

SelfVoteRejected ==
    /\ pc = "vote"
    /\ voters # <<>>
    /\ invalid_reason = "self"
    /\ current_attempt = 3

\* C9: a round whose night, discussion and votes all ran to completion ends
\* with fewer living players than it began with.
FullRoundRemovesPlayer ==
    pc = "next" => NumAlive < round_start_alive

\* C10: voting_phase runs at most once in a round.
VoteOncePerRound == round_votes <= 1

\* C13: in rounds after the first, the candidate victim is the first target
\* the wolves named, in roster order.
FirstTargetIsVictim ==
    (pc \in {"night_seer", "night_witch"} /\ current_round >= 2 /\ wolf_targets # <<>>) =>
        victim_id = Head(wolf_targets)

\* C14: when run_game has left its loop the winner is werewolf, villager or
\* draw; it is villager when no werewolf is alive and werewolf when a werewolf
\* but no other player is alive.
WinnerIsSet ==
    pc = "done" =>
        /\ winner \in {"werewolf", "villager", "draw"}
        /\ LivingWolves = 0 => winner = "villager"
        /\ (LivingWolves > 0 /\ LivingVillagers = 0) => winner = "werewolf"

WerewolvesWon ==
    /\ pc = "done"
    /\ winner = "werewolf"
    /\ LivingWolves > 0
    /\ LivingVillagers = 0

\* C15: once announce_winner has run (a game_over entry exists) there is
\* exactly one game_over entry, and no later step changes the position of
\* run_game, any player's is_alive, any counter or the history.
GameOverAbsorbing ==
    /\ [](history.game_over <= 1)
    /\ [][history.game_over >= 1 =>
            /\ pc = "done"
            /\ UNCHANGED <<pc, phase, current_round, lifeVars, history, winner>>]_vars

GameOverReached ==
    /\ pc = "done"
    /\ history.game_over = 1
    /\ winner = "villager"
    /\ LivingVillagers > 0

\* C16: every player eliminated by a vote whose kill_player call returns has
\* got one more last_words entry.
VoteOutGetsLastWords ==
    [][\A p \in Players :
          (pc = "vote" /\ pc' # "except" /\ is_alive[p] /\ ~is_alive'[p]) =>
              history'.last_words[p] = history.last_words[p] + 1]_vars

\* C17: a Hunter with can_shoot who is eliminated by a vote whose kill_player
\* call returns has death_confirmed set by that elimination.
HunterVotedOutConfirmed ==
    [][\A h \in Players :
          (pc = "vote" /\ pc' # "except" /\ role[h] = "hunter" /\ can_shoot[h]
              /\ is_alive[h] /\ ~is_alive'[h]) => death_confirmed'[h]]_vars

\* C18: a living Hunter with can_shoot who is killed by another Hunter's shot
\* has death_confirmed set (the Hunter is asked to shoot in turn).
ShotHunterAsked ==
    [][\A h \in Players :
          (pc = "night_deaths" /\ night_deaths # <<>> /\ role[h] = "hunter"
              /\ h # Head(night_deaths)[1] /\ can_shoot[h]
              /\ is_alive[h] /\ ~is_alive'[h]) => death_confirmed'[h]]_vars

\* C19: when a living Seer's check names a living player T, the check is
\* recorded for that Seer with T's is-werewolf result and the night goes on.
SeerCheckRecorded ==
    [][(pc = "seer_check" /\ check_target \in Players /\ is_alive[check_target]) =>
          /\ pc' \in {"night_seer", "night_witch"}
          /\ <<check_target, is_wolf(check_target)>> \in history'.seer_check[Head(seers)]]_vars

VoteRecordsHideRoles ==
    \A p \in Players :
        /\ game_state.votes.voter = p => game_state.votes.voter_role # role[p]
        /\ game_state.votes.target = p => game_state.votes.target_role # role[p]

\* C22: no decision call changes the game state.  The controller never
\* writes game_state["discussions"], so the key stays as it is in every step.
DecisionCallsKeepState ==
    [][game_state.discussions' = game_state.discussions]_vars


\* The positions of night_phase and voting_phase where the step taken is a
\* decision call: the wolves' discuss, check_player, use_potion, vote.
AtDecisionCall ==
    \/ pc \in {"night", "night_seer", "witch_loop"}
    \/ pc = "vote" /\ voters # <<>> /\ current_attempt < 3

\* C23: a decision call that fails during the night or the vote counts as
\* an absent decision and the round goes on: no such step leaves the phase
\* for run_game's except clause, which ends the round.
FailedCallKeepsRound ==
    [][AtDecisionCall => pc' # "except"]_vars


\* C24: a voter's vote decision is requested at most three times; a request
\* is rejected only while fewer than three were made; and the vote counted
\* for a voter, the random one after three rejections included, names a
\* living player other than the voter.
VoteRequestsBounded ==
    /\ [](pc = "vote" => current_attempt \in 0..3)
    /\ [][pc = "vote" /\ pc' = "vote" /\ current_attempt' > current_attempt
            => /\ current_attempt < 3
               /\ current_attempt' = current_attempt + 1
               /\ invalid_reason' # "none"
               /\ UNCHANGED <<voters, votes>>]_vars
    /\ [][pc = "vote" /\ pc' = "vote" /\ voters # <<>> /\ voters' # voters
            => LET t == vote_logged'.target IN
               /\ vote_logged'.voter = Head(voters)
               /\ t \in Players
               /\ is_alive[t]
               /\ t # Head(voters)]_vars

\* Three requests of the first voter were rejected and a living player
\* other than the voter is left for the random vote.
ThreeVotesRejected ==
    /\ pc = "vote"
    /\ voters # <<>>
    /\ current_attempt = 3
    /\ PossibleTargets(Head(voters)) # <<>>


RECURSIVE SumOver(_, _)
\* The sum of a tally over a set of players
SumOver(tally, ps) ==
    IF ps = {} THEN 0
    ELSE LET p == CHOOSE q \in ps : TRUE
         IN  tally[p] + SumOver(tally, ps \ {p})

\* C25: when the votes of a voting_phase with at least two living players
\* are all collected, the tally adds up to the number of players alive when
\* the phase began, one vote for each, and every voter was alive.
OneVotePerVoter ==
    /\ pc = "vote" => \A i \in DOMAIN alive_players : is_alive[alive_players[i]]
    /\ pc = "vote" /\ voters = <<>> /\ Len(alive_players) >= 2
          => SumOver(votes, Players) = Len(alive_players)

\* The collection ended with three or more voters, one of whom received
\* two votes.
VotesAllCollected ==
    /\ pc = "vote"
    /\ voters = <<>>
    /\ Len(alive_players) >= 3
    /\ \E p \in Players : votes[p] = 2


\* C26: every player holding a vote in the tally is a player of the game who
\* is alive during the vote, and a vote decision naming an unknown or a dead
\* target is rejected without touching the tally.
TallyKeysAlive ==
    /\ [](pc = "vote" => \A p \in DOMAIN votes :
              votes[p] > 0 => p \in Range(alive_players) /\ is_alive[p])
    /\ [][/\ pc = "vote"
           /\ pc' = "vote"
           /\ current_attempt' > current_attempt
           /\ invalid_reason' \in {"unknown", "dead"}
           => UNCHANGED <<votes, voters>>]_vars

\* A vote for a dead player has just been rejected while the tally already
\* holds a vote.
DeadTargetRejected ==
    /\ pc = "vote"
    /\ invalid_reason = "dead"
    /\ \E p \in Players : votes[p] > 0


\* A player entry of the configuration names an ai_type that is no key of
\* config["ai_players"], and every entry before it is bound.
UnknownBinding ==
    \E p \in DOMAIN config.ai_type :
        /\ config.ai_type[p] = "unknown"
        /\ \A q \in 1..(p - 1) : config.ai_type[q] = "known"

\* C27: with an unknown AI binding in the configuration run_game never
\* enters a night phase, applies no death and appends no round event to
\* the history.
UnknownBindingFatal ==
    (\E p \in DOMAIN config.ai_type : config.ai_type[p] = "unknown")
        => /\ pc \in {"setup", "aborted"}
           /\ phase = "init"
           /\ current_round = 1
           /\ history.wolf_identify = 0
           /\ history.game_over = 0
           /\ \A p \in Players : /\ is_alive[p]
                                  /\ history.death[p] = 0
                                  /\ history.last_words[p] = 0

\* initialize_game stopped at the second or a later player, whose binding
\* is unknown.
SetupAborted ==
    /\ pc = "aborted"
    /\ UnknownBinding
    /\ Len(role) >= 2

\* C28: with a role key that names no role in the configuration, game
\* construction aborts and no round is played.
UnknownRoleFatal ==
    (\E p \in DOMAIN config.roles :
         config.roles[p] \notin {"werewolf", "villager", "seer", "witch", "hunter"})
        => pc \in {"setup", "aborted"}


\* C29: the potions are single-use: a witch's has_medicine and has_poison
\* never turn from false to true, no witch saves more than once or poisons
\* more than once in a game, and the step of a witch without medicine leaves
\* the save as it was, the step of a witch without poison leaves the poison
\* target as it was (the two values the casualty list is built from).
PotionsSingleUse ==
    /\ [](\A w \in Players : potion_log[w].save <= 1 /\ potion_log[w].poison <= 1)
    /\ [][\A w \in Players : /\ has_medicine'[w] => has_medicine[w]
                             /\ has_poison'[w] => has_poison[w]]_vars
    /\ [][pc = "witch_loop" /\ witches # <<>> /\ pc' = "witch_loop"
            => LET w == Head(witches) IN
               /\ ~has_medicine[w] => saved_by_witch' = saved_by_witch
               /\ ~has_poison[w] => poisoned_by_witch' = poisoned_by_witch]_vars

\* A witch who has used both potions is asked again, another night.
SpentWitchAsked ==
    /\ pc = "witch_loop"
    /\ witches # <<>>
    /\ potion_log[Head(witches)] = [save |-> 1, poison |-> 1]
    /\ ~has_medicine[Head(witches)]
    /\ ~has_poison[Head(witches)]

\* C30: a witch who holds both potions can use both in one use_potion
\* resolution: whenever such a witch is asked and a living player other than
\* the victim exists, some answer makes the resolution save the victim and
\* poison that other player, consuming both potions.
BothPotionsInOneCall ==
    pc = "witch_loop" /\ witches # <<>>
        => LET w == Head(witches) IN
           /\ can_save(w)
           /\ can_poison(w)
           /\ ~saved_by_witch
           /\ \E t \in Players : is_alive[t] /\ t # victim_id
           => \E response \in WitchResponses :
                  LET after == apply_potion(w, use_potion(w, response, victim_id))
                  IN  /\ after.saved_by_witch
                      /\ after.poisoned_by_witch \in Players
                      /\ after.poisoned_by_witch # victim_id
                      /\ is_alive[after.poisoned_by_witch]
                      /\ ~after.has_medicine[w]
                      /\ ~after.has_poison[w]


\* The players who received a death entry in the step
DiedInStep == {p \in Players : history'.death[p] > history.death[p]}

\* C31: the night's casualties are applied wolf kill first, poison second,
\* and a Hunter's shot belongs to the casualty that killed the Hunter: in the
\* step that applies the first of two casualties, the wolves' victim dies,
\* nobody else dies but the target of the victim's own shot, and the poison
\* casualty is still waiting.
WolfKillBeforePoison ==
    [][pc = "night_deaths" /\ Len(night_deaths) = 2 /\ pc' = "night_deaths"
         => LET victim == night_deaths[1][1] IN
            /\ night_deaths[1][2] = "wolf"
            /\ night_deaths[2][2] = "poison"
            /\ night_deaths' = << night_deaths[2] >>
            /\ victim \in DiedInStep
            /\ \A p \in DiedInStep \ {victim} :
                   /\ role[victim] = "hunter"
                   /\ can_shoot[victim] /\ ~can_shoot'[victim]
                   /\ ability_log'[victim] = ability_log[victim] + 1
            /\ Cardinality(DiedInStep) <= 2]_vars

\* A Hunter killed by the wolves, dying for the first time, has shot while
\* the poison casualty, still alive, is waiting to be applied.
HunterShotBeforePoison ==
    /\ pc = "night_deaths"
    /\ Len(night_deaths) = 1
    /\ night_deaths[1][2] = "poison"
    /\ night_deaths[1][1] \in Players
    /\ is_alive[night_deaths[1][1]]
    /\ victim_id \in Players
    /\ role[victim_id] = "hunter"
    /\ ~is_alive[victim_id]
    /\ history.death[victim_id] = 1
    /\ ability_log[victim_id] = 1


\* C32: a Hunter shoots only while being eliminated.  A step in which a
\* Hunter's shot is logged leaves the Hunter dead and confirmed, finds the
\* gun loaded and unloads it, and kills a player other than the Hunter, who
\* gets the one death entry of the casualty; and a Hunter whose gun is
\* unloaded is dead and confirmed.
ShotOnlyMidElimination ==
    /\ [](\A h \in Players : role[h] = "hunter" /\ ~can_shoot[h]
              => death_confirmed[h] /\ ~is_alive[h])
    /\ [][\A h \in Players : ability_log'[h] > ability_log[h]
              => /\ role[h] = "hunter"
                 /\ ~is_alive'[h]
                 /\ death_confirmed'[h]
                 /\ can_shoot[h] /\ ~can_shoot'[h]
                 /\ history'.death[h] = history.death[h] + 1
                 /\ \E t \in DiedInStep : t # h /\ is_alive[t] /\ ~is_alive'[t]]_vars

\* A Hunter has shot a living player while being eliminated.
HunterHasShot ==
    \E h \in Players :
        /\ role[h] = "hunter"
        /\ ability_log[h] = 1
        /\ ~can_shoot[h]
        /\ \E t \in Players : t # h /\ ~is_alive[t] /\ history.death[t] >= 1


\* C33: when a night phase starts and when it ends, by returning or by an
\* exception, no Witch has used_medicine_this_round set.
RoundFlagClearAtNightEnds ==
    pc \in {"night", "check_night", "except"}
        => \A w \in Players : role[w] = "witch" => ~used_medicine_this_round[w]

\* A night in which a Witch used the medicine has ended.
NightWithSaveEnded ==
    /\ pc = "check_night"
    /\ \E w \in Players :
          /\ role[w] = "witch"
          /\ ~has_medicine[w]
          /\ potion_log[w].save = 1
          /\ has_poison[w]


\* C34: the witches are consulted only when the wolves left a victim: a
\* witch is asked only with a victim at hand, a night without a victim has
\* no poison target and no poison casualty, and the potion flags and the
\* potion log change only in a witch's step of a night with a victim.
WitchOnlyWithVictim ==
    /\ [](pc = "witch_loop" => victim_id # None)
    /\ [](pc \in {"night_casualties", "night_deaths"} /\ victim_id = None
             => /\ poisoned_by_witch = None
                /\ ~saved_by_witch
                /\ \A i \in DOMAIN night_deaths : night_deaths[i][2] # "poison")
    /\ [][<<has_medicine, has_poison, potion_log>>' # <<has_medicine, has_poison, potion_log>>
            => pc = "witch_loop" /\ victim_id # None]_vars

\* A night without a victim goes past living witches who hold both potions,
\* in a round after the first.
NightWithoutVictim ==
    /\ pc = "night_casualties"
    /\ victim_id = None
    /\ current_round > 1
    /\ \E w \in Players :
          role[w] = "witch" /\ is_alive[w] /\ has_medicine[w] /\ has_poison[w]


\* C35: a Seer's check that names a dead player or an id that is no player
\* is rejected: nothing is recorded for it, and the night goes on to the
\* next seer or to the witches.
BadCheckRejected ==
    [][/\ pc = "seer_check"
       /\ check_target # None
       /\ check_target \notin Players \/ ~is_alive[check_target]
       => /\ pc' \in {"night_seer", "night_witch"}
          /\ history'.seer_check = history.seer_check]_vars


\* C36: a poison decision that names a dead player or an id that is no
\* player makes no casualty and costs no poison: whenever a witch's step
\* sets the poison target or consumes a poison, the target is a living
\* player.
BadPoisonRejected ==
    [][/\ pc = "witch_loop"
       /\ pc' = "witch_loop"
       /\ poisoned_by_witch' # poisoned_by_witch \/ has_poison' # has_poison
       => /\ poisoned_by_witch' \in Players
          /\ is_alive[poisoned_by_witch']]_vars


\* C37: a role holder who is dead when the night starts uses no ability in
\* it: the witches and the seers asked in a night are alive, only a living
\* witch's potions or potion log change, only a living seer gets a check
\* recorded; the one ability used by a dead player is the Hunter's shot,
\* which asks for death_confirmed.
DeadUseNoAbility ==
    /\ [](/\ pc = "witch_loop" => (\A i \in DOMAIN witches : is_alive[witches[i]])
          /\ pc \in {"night_seer", "seer_check"}
                => (\A i \in DOMAIN seers : is_alive[seers[i]]))
    /\ [][/\ <<has_medicine, has_poison, potion_log>>'
                 # <<has_medicine, has_poison, potion_log>>
             => /\ pc = "witch_loop"
                /\ role[Head(witches)] = "witch"
                /\ is_alive[Head(witches)]
                /\ \A w \in Players \ {Head(witches)} :
                       /\ has_medicine'[w] = has_medicine[w]
                       /\ has_poison'[w] = has_poison[w]
                       /\ potion_log'[w] = potion_log[w]
          /\ history'.seer_check # history.seer_check
             => \A p \in Players :
                    \/ history'.seer_check[p] = history.seer_check[p]
                    \/ (role[p] = "seer" /\ is_alive[p])
          /\ ability_log' # ability_log
             => \A h \in Players :
                    \/ ability_log'[h] = ability_log[h]
                    \/ (role[h] = "hunter" /\ ~is_alive'[h] /\ death_confirmed'[h])]_vars

\* A living witch is asked on a night on which another witch, holding both
\* potions, is dead.
DeadWitchPassedOver ==
    /\ pc = "witch_loop"
    /\ witches # <<>>
    /\ \E w \in Players :
          role[w] = "witch" /\ ~is_alive[w] /\ has_medicine[w] /\ has_poison[w]

\* C38: a win check ends the game exactly when no werewolf is counted alive
\* or the werewolves counted are at least the villagers counted, and it lets
\* the game continue into the next phase exactly when
\* 0 < alive_count.werewolf < alive_count.villager.
ContinuesIffWolvesFewer ==
    [][LET wolf_count     == alive_count.werewolf
           villager_count == alive_count.villager
       IN  pc \in {"check_night", "check_day", "check_vote"}
           => /\ (pc' = LoopExit) <=> (wolf_count = 0 \/ wolf_count >= villager_count)
              /\ (pc' = AfterCheck(pc)) <=> (0 < wolf_count /\ wolf_count < villager_count)
      ]_vars

\* C39: when the game ends with a werewolf and a non-werewolf both alive the
\* announced winner is "draw", and "werewolf" is announced only when no
\* non-werewolf is alive.
ParityIsDraw ==
    winner # "unset"
    => LET werewolf_alive == \E p \in Players : is_alive[p] /\ is_wolf(p)
           villager_alive == \E p \in Players : is_alive[p] /\ ~is_wolf(p)
       IN  /\ (werewolf_alive /\ villager_alive) => winner = "draw"
           /\ winner = "werewolf" => ~villager_alive

\* The game ended at parity: a werewolf and a non-werewolf are alive and the
\* winner is a draw.
DrawAtParity ==
    /\ pc = "done"
    /\ winner = "draw"
    /\ alive_count.werewolf >= 1
    /\ alive_count.werewolf >= alive_count.villager
    /\ \E p \in Players : is_alive[p] /\ is_wolf(p)
    /\ \E p \in Players : is_alive[p] /\ ~is_wolf(p)

\* C40: when a phase of a round has raised, the next step of run_game skips
\* the remaining phases and win checks of the round: it advances
\* current_round by one (within the counted range) and starts the next night,
\* with no win check, no winner and no change of the players in between.
ErrorSkipsToNextNight ==
    [][pc = "except"
       => /\ pc' = "night"
          /\ current_round' = IF current_round < MaxRound THEN current_round + 1
                                                          ELSE current_round
          /\ winner' = winner
          /\ history'.game_over = history.game_over
          /\ is_alive' = is_alive
          /\ alive_count' = alive_count]_vars

\* A new night begins, after a death of the aborted round, in a state in
\* which a win check would have ended the game.
NightAfterUncheckedDeath ==
    /\ pc = "night"
    /\ current_round > 1
    /\ winner = "unset"
    /\ alive_count.werewolf = LivingWolves
    /\ alive_count.villager = LivingVillagers
    /\ check_game_over(alive_count)

====
